---- MODULE Spec2Model ----
(***************************************************************************)
(* Model of the embedded-audio WAV decoder (src/src/wav.rs, src/src/lib.rs)*)
(* The file is a sequence of bytes; the decoder is the state machine       *)
(*   new -> scan (one step per parse_chunks call) -> located -> streaming  *)
(* and the streaming reader is driven by read / try_seek / restart.        *)
(* The decoder runs over one of three platform files (std::fs::File,       *)
(* TestFile, a file with short reads) and in one of three builds (64-bit   *)
(* usize; 32-bit usize with and without overflow checks).                  *)
(***************************************************************************)
EXTENDS Integers, Naturals, Sequences, FiniteSets, TLC

VARIABLES
    file,        \* contents of the platform file (bytes, 1-based sequence)
    platform,    \* which PlatformFile implementation backs the reader
    build,       \* width of usize and overflow checking of the build
    pos,         \* the platform file's cursor (0-based byte offset)
    buf,         \* the 64-byte scratch buffer of Wav::new / the fmt input
    chunks,      \* the chunk table built by Wav::new / parse_chunks
    file_offset, \* argument of the pending parse_chunks call
    pc,          \* position of the decoder
    result,      \* "none", "Ok" or the Error returned by Wav::new
    fmt,         \* the decoded Fmt descriptor
    data_read,   \* Wav.data_read
    data_start,  \* Wav.data_start
    data_end,    \* Wav.data_end
    ops,         \* number of reader operations performed so far
    seeked,      \* TRUE once try_seek or restart was called
    sumReq,      \* total of the buffer lengths passed to read so far
    last,        \* the last reader operation, its argument, result and output
    rewind       \* progress of a read / restart / read sequence

vars == <<file, platform, build, build, pos, buf, chunks, file_offset, pc, result, fmt,
          data_read, data_start, data_end, ops, seeked, sumReq, last, rewind>>

----------------------------------------------------------------------------
(* Program constants *)

MAX_CHUNKS == 25
BUF_LEN == 64
U16 == 65536

(* Bounds of the model *)

MaxOps == 3
MaxBuf == 2
MaxSeek == 1
MaxData == 4

----------------------------------------------------------------------------
(* Bytes *)

LE16(b, i) == b[i + 1] + 256 * b[i + 2]
LE32(b, i) == b[i + 1] + 256 * b[i + 2] + 65536 * b[i + 3] + 16777216 * b[i + 4]

----------------------------------------------------------------------------
(* usize.  On a 64-bit target no value the decoder computes from a u32     *)
(* length field and file offsets overflows.  On a 32-bit target usize is   *)
(* 32 bits wide: a value v >= 2^31 is held here in two's complement, as    *)
(* v - 2^32, and an addition or subtraction that leaves [0, 2^32) panics   *)
(* when the build has overflow checks and wraps when it has none.          *)

Builds == {"usize64", "usize32_checked", "usize32_wrapping"}

\* u32::from_le_bytes(..) as usize
U32AsUsize(bd, b, i) ==
    IF bd = "usize64" THEN LE32(b, i)
    ELSE LET low == b[i + 1] + 256 * b[i + 2] + 65536 * b[i + 3]
             top == b[i + 4]
         IN  IF top < 128 THEN low + 16777216 * top
             ELSE low + 16777216 * (top - 256)

\* a <= b on usize
WordLe(a, b) == IF (a < 0) = (b < 0) THEN a <= b ELSE b < 0

\* a + b on usize: the value (wrapped) and whether it overflowed
WordAdd(bd, a, b) ==
    LET IntMax == 2147483647
        IntMin == (0 - 2147483647) - 1
    IN
    IF bd = "usize64" THEN [val |-> a + b, ovf |-> FALSE]
    ELSE IF a >= 0 /\ b >= 0
    THEN [val |-> IF a > IntMax - b THEN (a - IntMax) + (b - IntMax) - 2
                  ELSE a + b,
          ovf |-> FALSE]
    ELSE IF a < 0 /\ b < 0
    THEN [val |-> IF a < IntMin - b THEN (a + IntMax) + (b + IntMax) + 2
                  ELSE a + b,
          ovf |-> TRUE]
    ELSE [val |-> a + b, ovf |-> a + b >= 0]

\* a - b on usize: the value (wrapped) and whether it underflowed
WordSub(bd, a, b) ==
    LET IntMax == 2147483647
        IntMin == (0 - 2147483647) - 1
    IN
    IF bd = "usize64" THEN [val |-> a - b, ovf |-> a < b]
    ELSE IF (a < 0) = (b < 0) THEN [val |-> a - b, ovf |-> a < b]
    ELSE IF a >= 0
    THEN [val |-> IF a > IntMax + b THEN (a - IntMax) - (b + IntMax) - 2
                  ELSE a - b,
          ovf |-> TRUE]
    ELSE [val |-> IF a < IntMin + b THEN (a + IntMax) - (b - IntMax) + 2
                  ELSE a - b,
          ovf |-> FALSE]

\* the arithmetic panics: overflow in a build with overflow checks
Panics(bd, r) == r.ovf /\ bd # "usize32_wrapping"

LE16Bytes(n) == <<n % 256, (n \div 256) % 256>>
LE32Bytes(n) == <<n % 256, (n \div 256) % 256, (n \div 65536) % 256,
                  (n \div 16777216) % 256>>

TagRIFF == <<82, 73, 70, 70>>
TagRIFX == <<82, 73, 70, 88>>
TagWAVE == <<87, 65, 86, 69>>
TagData == <<100, 97, 116, 97>>
TagFmt  == <<102, 109, 116, 32>>
TagLIST == <<76, 73, 83, 84>>
TagJunk == <<88, 88, 88, 88>>

----------------------------------------------------------------------------
(* lib.rs: SampleFormat, Channels *)

SampleFormatSize(f) ==
    CASE f = "I8"  -> 1
      [] f = "U8"  -> 1
      [] f = "I16" -> 2
      [] f = "I24" -> 3

ChannelsToU16(c) == IF c = "Mono" THEN 1 ELSE 2

----------------------------------------------------------------------------
(* lib.rs: the PlatformFile implementations in the source.                 *)
(* Each operation returns [ok, pos, n, err]; err "panic" is an arithmetic  *)
(* overflow or slice failure inside the implementation.                    *)
(* "std" is std::fs::File reading a file that fills every buffer, "test"   *)
(* is TestFile, "short" is a file whose read may return fewer bytes than   *)
(* asked for, as Read::read and the embedded-sdmmc File::read may.         *)

PlatOk(p, n) == [ok |-> TRUE, pos |-> p, n |-> n, err |-> "none"]
PlatErr(p, e) == [ok |-> FALSE, pos |-> p, n |-> 0, err |-> e]

Min(a, b) == IF a < b THEN a ELSE b

\* impl PlatformFile for std::fs::File
StdRead(f, p, len) ==
    IF WordLe(Len(f), p) THEN PlatOk(p, 0)
    ELSE PlatOk(p + Min(len, Len(f) - p), Min(len, Len(f) - p))

StdSeekFromStart(f, p, offset) == PlatOk(offset, 0)

StdSeekFromCurrent(f, p, offset) ==
    IF p + offset < 0 THEN PlatErr(p, "SeekOutofBounds")
    ELSE PlatOk(p + offset, 0)

\* impl PlatformFile for TestFile
TestRead(f, p, len) ==
    IF p = Len(f) THEN PlatErr(p, "EOF")
    ELSE IF p > Len(f) THEN PlatErr(p, "panic")
    ELSE LET read_len == IF p + len >= Len(f) THEN Len(f) - p ELSE len
         IN  PlatOk((p + read_len) % U16, read_len)

TestSeekFromStart(f, p, offset) ==
    IF ~WordLe(offset, Len(f)) THEN PlatErr(p, "SeekOutofBounds")
    ELSE PlatOk(offset % U16, 0)

\* wrap = FALSE: overflow checks on (the subtraction panics);
\* wrap = TRUE: wrapping arithmetic.
TestSeekFromCurrent(f, p, offset, wrap) ==
    IF offset + p > Len(f) THEN PlatErr(p, "SeekOutofBounds")
    ELSE IF offset > 0 THEN
        IF p + (offset % U16) >= U16 /\ ~wrap THEN PlatErr(p, "panic")
        ELSE PlatOk((p + (offset % U16)) % U16, 0)
    ELSE
        IF p - (offset % U16) < 0 /\ ~wrap THEN PlatErr(p, "panic")
        ELSE PlatOk((p - (offset % U16)) % U16, 0)

PlatformRead(pl, f, p, len) ==
    IF pl = "test" THEN TestRead(f, p, len) ELSE StdRead(f, p, len)

PlatformSeekFromStart(pl, f, p, offset) ==
    IF pl = "test" THEN TestSeekFromStart(f, p, offset)
    ELSE StdSeekFromStart(f, p, offset)

PlatformSeekFromCurrent(pl, f, p, offset, wrap) ==
    IF pl = "test" THEN TestSeekFromCurrent(f, p, offset, wrap)
    ELSE StdSeekFromCurrent(f, p, offset)

\* the byte counts a short read may return instead of the full count
ShortCounts == {4, 20}

\* the possible results of read: one for a file that fills the buffer;
\* for a "short" file with data remaining, any count of ShortCounts below
\* the full one as well
ReadOutcomes(pl, f, p, len) ==
    IF pl = "short" /\ p >= 0 /\ p < Len(f) /\ len >= 1
    THEN { PlatOk(p + n, n) :
             n \in { k \in ShortCounts \cup {Min(len, Len(f) - p)} :
                        k <= Min(len, Len(f) - p) } }
    ELSE { PlatformRead(pl, f, p, len) }

\* the bytes a read of n bytes at cursor p copies into the front of b
FillBuf(b, f, p, n) ==
    [i \in 1..Len(b) |-> IF i <= n THEN f[p + i] ELSE b[i]]

PlatformError(e) ==
    CASE e = "EOF" -> "PlatformError(EOF)"
      [] e = "SeekOutofBounds" -> "PlatformError(SeekOutofBounds)"
      [] OTHER -> "panic"

----------------------------------------------------------------------------
(* wav.rs: chunk headers *)

ChunkTagFromBytes(b) ==
    CASE b = TagRIFF -> [kind |-> "Riff", raw |-> b]
      [] b = TagRIFX -> [kind |-> "Rifx", raw |-> b]
      [] b = TagWAVE -> [kind |-> "Wave", raw |-> b]
      [] b = TagData -> [kind |-> "Data", raw |-> b]
      [] b = TagFmt  -> [kind |-> "Fmt", raw |-> b]
      [] OTHER       -> [kind |-> "Unknown", raw |-> b]

\* the length field of the header, rounded up to even
PaddedLen(bd, len) ==
    IF len % 2 # 0 THEN WordAdd(bd, len, 1) ELSE [val |-> len, ovf |-> FALSE]

\* the table entry of the header in bytes, found at file offset index;
\* panic: the offset arithmetic overflowed in a build that checks it
parse_chunk(bd, bytes, index) ==
    LET tag == ChunkTagFromBytes(SubSeq(bytes, 1, 4))
        chunk_len == PaddedLen(bd, U32AsUsize(bd, bytes, 4))
        start == WordAdd(bd, index, 8)
        end == WordAdd(bd, start.val, chunk_len.val)
    IN  [entry |-> [chunk |-> tag, start |-> start.val, end |-> end.val],
         panic |-> \/ Panics(bd, chunk_len)
                   \/ Panics(bd, start)
                   \/ Panics(bd, end)]

\* where the scan continues when the while loop of parse_chunks runs out
\* of complete headers in the window
NextWindow(off, read_len, index) == off + read_len

\* Vec::push on the fixed-capacity table
TableFull(cs) == Len(cs) >= MAX_CHUNKS

\* the while loop of one parse_chunks call over the window b[0..read_len)
\* read at file offset off; next is the argument of the recursive call
RECURSIVE ScanLoop(_, _, _, _, _, _)
ScanLoop(bd, b, read_len, off, index, cs) ==
    IF index + 8 <= read_len THEN
        LET at == WordAdd(bd, off, index)
            p == parse_chunk(bd, SubSeq(b, index + 1, index + 8), at.val)
            c == p.entry
            cs2 == Append(cs, c)
            span == WordSub(bd, c.end, c.start)
            chunk_len == WordAdd(bd, span.val, 8)
            after == WordAdd(bd, index, chunk_len.val)
        IN  IF Panics(bd, at) \/ p.panic
            THEN [chunks |-> cs, next |-> off, err |-> "panic"]
            ELSE IF TableFull(cs)
            THEN [chunks |-> cs, next |-> off, err |-> "ExceededMaxChunks"]
            ELSE IF \/ Panics(bd, span)
                    \/ Panics(bd, chunk_len)
                    \/ Panics(bd, after)
            THEN [chunks |-> cs2, next |-> off, err |-> "panic"]
            ELSE IF WordLe(after.val, read_len)
            THEN ScanLoop(bd, b, read_len, off, after.val, cs2)
            ELSE [chunks |-> cs2, next |-> c.end, err |-> "none"]
    ELSE [chunks |-> cs, next |-> NextWindow(off, read_len, index),
          err |-> "none"]

----------------------------------------------------------------------------
(* wav.rs: the fmt payload *)

NoFmt == [audio_format |-> "none", sample_rate |-> 0, channels |-> "none",
          sample_format |-> "none"]

AudioFormatFromBytes(b) ==
    IF LE16(b, 0) = 1 THEN [err |-> "none", val |-> "Pcm"]
    ELSE [err |-> "UnsupportedAudioFormat", val |-> "none"]

\* a decoder that validates the channel count before the format code
parse_fmt_channels_first(b) ==
    LET format == AudioFormatFromBytes(SubSeq(b, 1, 2))
        num_channels == LE16(b, 2)
        sample_rate == LE32(b, 4) % U16
        bit_depth == LE16(b, 14)
    IN  IF num_channels \notin {1, 2}
        THEN [err |-> "UnsupportedChannelCount", fmt |-> NoFmt]
        ELSE IF format.err # "none" THEN [err |-> format.err, fmt |-> NoFmt]
        ELSE IF bit_depth \notin {8, 16, 24}
        THEN [err |-> "UnknownEncoding", fmt |-> NoFmt]
        ELSE [err |-> "none",
              fmt |-> [audio_format |-> format.val,
                       sample_rate |-> sample_rate,
                       channels |-> IF num_channels = 1 THEN "Mono"
                                    ELSE "Stereo",
                       sample_format |-> CASE bit_depth = 8 -> "U8"
                                           [] bit_depth = 16 -> "I16"
                                           [] bit_depth = 24 -> "I24"]]

\* a decoder that takes the rate from the byte-rate field, bytes [8:12]
parse_fmt_byte_rate(b) ==
    LET format == AudioFormatFromBytes(SubSeq(b, 1, 2))
        num_channels == LE16(b, 2)
        sample_rate == LE32(b, 8) % U16
        bit_depth == LE16(b, 14)
    IN  IF format.err # "none" THEN [err |-> format.err, fmt |-> NoFmt]
        ELSE IF num_channels \notin {1, 2}
        THEN [err |-> "UnsupportedChannelCount", fmt |-> NoFmt]
        ELSE IF bit_depth \notin {8, 16, 24}
        THEN [err |-> "UnknownEncoding", fmt |-> NoFmt]
        ELSE [err |-> "none",
              fmt |-> [audio_format |-> format.val,
                       sample_rate |-> sample_rate,
                       channels |-> IF num_channels = 1 THEN "Mono"
                                    ELSE "Stereo",
                       sample_format |-> CASE bit_depth = 8 -> "U8"
                                           [] bit_depth = 16 -> "I16"
                                           [] bit_depth = 24 -> "I24"]]

parse_fmt(b) ==
    LET format == AudioFormatFromBytes(SubSeq(b, 1, 2))
        num_channels == LE16(b, 2)
        sample_rate == LE32(b, 4) % U16
        bit_depth == LE16(b, 14)
    IN  IF format.err # "none" THEN [err |-> format.err, fmt |-> NoFmt]
        ELSE IF num_channels \notin {1, 2}
        THEN [err |-> "UnsupportedChannelCount", fmt |-> NoFmt]
        ELSE IF bit_depth \notin {8, 16, 24}
        THEN [err |-> "UnknownEncoding", fmt |-> NoFmt]
        ELSE [err |-> "none",
              fmt |-> [audio_format |-> format.val,
                       sample_rate |-> sample_rate,
                       channels |-> IF num_channels = 1 THEN "Mono"
                                    ELSE "Stereo",
                       sample_format |-> CASE bit_depth = 8 -> "U8"
                                           [] bit_depth = 16 -> "I16"
                                           [] bit_depth = 24 -> "I24"]]

\* a find that reports the last entry when no entry has the tag
RECURSIVE FindFromLast(_, _, _)
FindFromLast(cs, kind, i) ==
    IF i >= Len(cs) THEN Len(cs)
    ELSE IF cs[i].chunk.kind = kind THEN i
    ELSE FindFromLast(cs, kind, i + 1)

\* chunks.iter().find(|chunk| chunk.chunk == tag): index of the first
\* entry with that tag, 0 if there is none
RECURSIVE FindFrom(_, _, _)
FindFrom(cs, kind, i) ==
    IF i > Len(cs) THEN 0
    ELSE IF cs[i].chunk.kind = kind THEN i
    ELSE FindFrom(cs, kind, i + 1)

FindChunk(cs, kind) == FindFrom(cs, kind, 1)

\* a seek to the header of the data chunk instead of its payload
DataSeekTargetHeader(c) == c.start - 8

\* the offset Wav::new seeks to before returning the reader
DataSeekTarget(c) == c.start

----------------------------------------------------------------------------
(* The files the decoder is run on.  A subchunk is [tag, size, body]:      *)
(* the header declares size, body is the payload present in the file.      *)

FmtBody(code, ch, rate, bits) ==
    LE16Bytes(code) \o LE16Bytes(ch) \o LE32Bytes(rate)
      \o LE32Bytes(rate * ((ch * bits) \div 8)) \o LE16Bytes((ch * bits) \div 8)
      \o LE16Bytes(bits)

FmtChunk(code, ch, rate, bits) ==
    [tag |-> TagFmt, size |-> 16, body |-> FmtBody(code, ch, rate, bits)]

\* payload byte i of a data chunk is 16 + i: every position is recognisable
DataChunk(size) ==
    [tag |-> TagData, size |-> size, body |-> [i \in 1..size |-> 16 + i]]

ListChunk(size) ==
    [tag |-> TagLIST, size |-> size,
     body |-> [i \in 1..size |-> 200 + (i % 8)]]

ChunkBytes(c) ==
    c.tag \o LE32Bytes(c.size) \o c.body
      \o (IF Len(c.body) % 2 # 0 THEN <<0>> ELSE <<>>)

RECURSIVE Flatten(_)
Flatten(subs) ==
    IF subs = <<>> THEN <<>> ELSE ChunkBytes(Head(subs)) \o Flatten(Tail(subs))

FileOf(riff, wave, subs) ==
    LET body == Flatten(subs)
    IN  riff \o LE32Bytes(4 + Len(body)) \o wave \o body

WavFile(subs) == FileOf(TagRIFF, TagWAVE, subs)

Opt(c) == {<<>>, <<c>>}

RECURSIVE Fillers(_)
Fillers(k) == IF k = 0 THEN <<>> ELSE <<ListChunk(0)>> \o Fillers(k - 1)

GoodFmts == {FmtChunk(1, 1, 8000, 16), FmtChunk(1, 2, 8000, 8),
             FmtChunk(1, 1, 8000, 24), FmtChunk(1, 2, 96000, 16)}
BadFmts == {FmtChunk(2, 1, 8000, 16), FmtChunk(1, 3, 8000, 16),
            FmtChunk(1, 1, 8000, 32)}
DataSizes == {MaxData - 1, MaxData}
MidChunks == {<<>>, <<ListChunk(0)>>, <<ListChunk(25)>>, <<ListChunk(26)>>}

\* well-formed containers: one fmt, one data, other chunks around them
WellFormedLayouts ==
    { a \o <<f>> \o b \o <<DataChunk(s)>> \o c :
        a \in Opt(ListChunk(1)), f \in GoodFmts, b \in MidChunks,
        s \in DataSizes, c \in Opt(ListChunk(4)) }
      \cup { <<DataChunk(s), f>> : s \in DataSizes, f \in GoodFmts }

Layouts ==
    WellFormedLayouts
      \cup { <<f, DataChunk(MaxData)>> : f \in BadFmts }
      \cup { <<FmtChunk(1, 1, 8000, 16)>>, <<DataChunk(MaxData)>>, <<>>,
             <<ListChunk(3)>>, <<ListChunk(2), FmtChunk(1, 1, 8000, 16)>> }
      \cup { <<FmtChunk(1, 1, 8000, 16), DataChunk(8)>> \o Fillers(k) :
               k \in {MAX_CHUNKS - 3, MAX_CHUNKS - 2} }

\* a data chunk whose header declares more payload than the file holds
ShortData(size, present) ==
    [tag |-> TagData, size |-> size, body |-> [i \in 1..present |-> 16 + i]]

\* a fmt chunk declaring size bytes of which the file holds the first
\* present bytes of a PCM mono 8000 Hz 16-bit payload
ShortFmt(size, present) ==
    [tag |-> TagFmt, size |-> size,
     body |-> SubSeq(FmtBody(1, 1, 8000, 16), 1, present)]

\* fmt chunks of fewer than 16 payload bytes: one of declared size 10
\* followed by a data chunk, one cut off by the end of the file
ShortFmtFiles ==
    { WavFile(<<ShortFmt(10, 10), DataChunk(16)>>),
      WavFile(<<DataChunk(MaxData), ShortFmt(16, 4)>>) }

\* a file ending in an odd-sized data chunk written without its pad byte
Unpadded ==
    LET f == WavFile(<<FmtChunk(1, 1, 8000, 16), DataChunk(2 * MaxData - 1)>>)
    IN  SubSeq(f, 1, Len(f) - 1)

Files ==
    { WavFile(l) : l \in Layouts }
      \cup ShortFmtFiles
      \cup { Unpadded,
             WavFile(<<FmtChunk(1, 2, 8000, 8), ShortData(2 * MaxData, 2)>>) }
      \cup { FileOf(r, w, <<FmtChunk(1, 1, 8000, 16), DataChunk(MaxData)>>) :
               r \in {TagRIFX, TagJunk}, w \in {TagWAVE, TagJunk} }
      \cup { FileOf(TagRIFF, TagJunk,
                    <<FmtChunk(1, 1, 8000, 16), DataChunk(MaxData)>>),
             <<>>, <<82, 73, 70>> }

\* a chunk whose header declares 2^32 + size bytes (size < 0), no payload
HugeChunk(size) == [tag |-> TagLIST, size |-> size, body |-> <<>>]

\* a file written to a pipe: the RIFF and data sizes are left at 0xFFFFFFFF
StreamedWav ==
    TagRIFF \o LE32Bytes(0 - 1) \o TagWAVE
      \o Flatten(<<FmtChunk(1, 1, 8000, 16),
                   ShortData(0 - 1, MaxData)>>)

\* files with a length field of 0xFFFFFFFF or 0xFFFFFFD8.  They are run on
\* the 32-bit builds only: on a 64-bit target nothing overflows and the
\* offsets computed exceed the 32-bit integers of TLC.
\* the files read through a platform whose reads may be short
ShortReadFiles ==
    { WavFile(<<f, DataChunk(MaxData)>>) : f \in GoodFmts }
      \cup { WavFile(<<DataChunk(MaxData), FmtChunk(1, 1, 8000, 16)>>) }

HugeFiles ==
    { WavFile(<<FmtChunk(1, 1, 8000, 16), HugeChunk(0 - s),
                DataChunk(MaxData)>>) : s \in {1, 40} }
      \cup { StreamedWav }

----------------------------------------------------------------------------
(* State machine *)

NoOp == [op |-> "none", arg |-> 0, ok |-> TRUE, n |-> 0, out |-> <<>>,
         from |-> 0]
NoRewind == [stage |-> 0, n |-> 0, out |-> <<>>]

Init ==
    /\ file \in Files \cup HugeFiles
    /\ platform \in {"std", "test", "short"}
    /\ build \in Builds
    /\ file \in HugeFiles => build # "usize64"
    /\ platform = "short" => (file \in ShortReadFiles /\ build = "usize64")
    /\ pos = 0
    /\ buf = [i \in 1..BUF_LEN |-> 0]
    /\ chunks = <<>>
    /\ file_offset = 0
    /\ pc = "new"
    /\ result = "none"
    /\ fmt = NoFmt
    /\ data_read = 0
    /\ data_start = 0
    /\ data_end = 0
    /\ ops = 0
    /\ seeked = FALSE
    /\ sumReq = 0
    /\ last = NoOp
    /\ rewind = NoRewind

ReaderUnchanged ==
    UNCHANGED <<fmt, data_read, data_start, data_end, ops, seeked, sumReq,
                last, rewind>>

Fail(e) ==
    /\ pc' = IF e = "panic" THEN "panic" ELSE "failed"
    /\ result' = e

\* Wav::new, lines 48-60: read the first window, record the RIFF header
\* entry, call parse_chunks at offset 12
NewStart ==
    /\ pc = "new"
    /\ \E r \in ReadOutcomes(platform, file, pos, BUF_LEN) :
           IF ~r.ok
           THEN /\ Fail(PlatformError(r.err))
                /\ UNCHANGED <<pos, buf, chunks, file_offset>>
           ELSE LET b == FillBuf(buf, file, pos, r.n)
                    riff == parse_chunk(build, SubSeq(b, 1, 8), 0)
                IN  /\ pos' = r.pos
                    /\ buf' = b
                    /\ IF riff.panic
                       THEN /\ Fail("panic")
                            /\ UNCHANGED <<chunks, file_offset>>
                       ELSE /\ chunks' = <<riff.entry>>
                            /\ file_offset' = 12
                            /\ pc' = "scan"
                            /\ UNCHANGED result
    /\ UNCHANGED <<file, platform, build>>
    /\ ReaderUnchanged

\* one call of parse_chunks(buf, file, chunks, file_offset)
ParseChunks ==
    /\ pc = "scan"
    /\ LET s == PlatformSeekFromStart(platform, file, pos, file_offset)
       IN  IF ~s.ok
           THEN /\ Fail(PlatformError(s.err))
                /\ UNCHANGED <<pos, buf, chunks, file_offset>>
           ELSE \E r \in ReadOutcomes(platform, file, s.pos, BUF_LEN) :
                    IF ~r.ok /\ r.err = "EOF"
                    THEN /\ pc' = "located"
                         /\ pos' = r.pos
                         /\ UNCHANGED <<buf, chunks, file_offset, result>>
                    ELSE IF ~r.ok
                    THEN /\ Fail(PlatformError(r.err))
                         /\ pos' = r.pos
                         /\ UNCHANGED <<buf, chunks, file_offset>>
                    ELSE IF r.n = 0
                    THEN /\ pc' = "located"
                         /\ pos' = r.pos
                         /\ UNCHANGED <<buf, chunks, file_offset, result>>
                    ELSE LET b == FillBuf(buf, file, s.pos, r.n)
                             w == ScanLoop(build, b, r.n, file_offset, 0, chunks)
                         IN  /\ pos' = r.pos
                             /\ buf' = b
                             /\ chunks' = w.chunks
                             /\ IF w.err # "none"
                                THEN /\ Fail(w.err)
                                     /\ UNCHANGED file_offset
                                ELSE /\ file_offset' = w.next
                                     /\ UNCHANGED <<pc, result>>
    /\ UNCHANGED <<file, platform, build>>
    /\ ReaderUnchanged

\* Wav::new, lines 62-86: locate and decode fmt, locate data, build the reader
NewFinish ==
    /\ pc = "located"
    /\ LET fi == FindChunk(chunks, "Fmt")
           di == FindChunk(chunks, "Data")
       IN  IF fi = 0
           THEN Fail("NoFmtChunkFound") /\ UNCHANGED <<pos, buf, fmt,
                     data_start, data_end>>
           ELSE
           LET s == PlatformSeekFromStart(platform, file, pos, chunks[fi].start)
           IN  IF ~s.ok
               THEN Fail(PlatformError(s.err)) /\ UNCHANGED <<pos, buf, fmt,
                         data_start, data_end>>
               ELSE
               \E r \in ReadOutcomes(platform, file, s.pos, BUF_LEN) :
                   IF ~r.ok
                   THEN /\ Fail(PlatformError(r.err))
                        /\ pos' = r.pos
                        /\ UNCHANGED <<buf, fmt, data_start, data_end>>
                   ELSE
                   LET b == FillBuf(buf, file, s.pos, r.n)
                       f == parse_fmt(b)
                   IN  /\ buf' = b
                       /\ IF f.err # "none"
                          THEN /\ Fail(f.err)
                               /\ pos' = r.pos
                               /\ UNCHANGED <<fmt, data_start, data_end>>
                          ELSE IF di = 0
                          THEN /\ Fail("NoDataChunkFound")
                               /\ pos' = r.pos
                               /\ UNCHANGED <<fmt, data_start, data_end>>
                          ELSE
                          LET d == PlatformSeekFromStart(platform, file, r.pos,
                                                         DataSeekTarget(chunks[di]))
                          IN  IF ~d.ok
                              THEN /\ Fail(PlatformError(d.err))
                                   /\ pos' = r.pos
                                   /\ UNCHANGED <<fmt, data_start, data_end>>
                              ELSE /\ pos' = d.pos
                                   /\ fmt' = f.fmt
                                   /\ data_start' = chunks[di].start
                                   /\ data_end' = chunks[di].end
                                   /\ pc' = "streaming"
                                   /\ result' = "Ok"
    /\ UNCHANGED <<file, platform, build, chunks, file_offset, data_read, ops,
                   seeked, sumReq, last, rewind>>

----------------------------------------------------------------------------
(* The streaming reader: impl AudioFile for Wav *)

played == data_read
is_eof == data_end = data_read
sample_rate == fmt.sample_rate
channels == fmt.channels
sample_format == fmt.sample_format

\* the length of the slice of the caller's buffer handed to the platform
ClampLen(len, read, end) ==
    IF WordLe(end, len + read) THEN end - read ELSE len

\* a seek that passes the sample count on as a byte count
ByteOffsetSamples(sample_offset, f) == sample_offset

\* byte offset try_seek passes to seek_from_current
ByteOffset(sample_offset, f) == sample_offset * SampleFormatSize(f)

\* a read that counts the length of the caller's buffer as played
DataReadAfterRequested(read, len, r) == read + len

\* data_read after a read into a buffer of len bytes with platform result r
DataReadAfter(read, len, r) == IF r.ok THEN read + r.n ELSE read

ReadLens == (1..MaxBuf) \cup {BUF_LEN}
SeekOffsets == { k \in (0 - MaxSeek)..MaxSeek : k # 0 }

\* AudioFile::read for Wav
Read(len) ==
    /\ pc = "streaming"
    /\ ops < MaxOps
    /\ \E r \in ReadOutcomes(platform, file, pos,
                              ClampLen(len, data_read, data_end)) :
       LET out == IF r.ok THEN SubSeq(file, pos + 1, pos + r.n) ELSE <<>>
       IN  /\ pos' = r.pos
           /\ data_read' = DataReadAfter(data_read, len, r)
           /\ pc' = IF r.err = "panic" THEN "panic" ELSE pc
           /\ last' = [op |-> "read", arg |-> len, ok |-> r.ok, n |-> r.n,
                       out |-> out, from |-> pos]
           /\ rewind' = IF ops = 0 /\ r.ok /\ r.n = len
                        THEN [stage |-> 1, n |-> len, out |-> out]
                        ELSE IF rewind.stage = 2 /\ len = rewind.n
                        THEN [rewind EXCEPT !.stage = 3]
                        ELSE [rewind EXCEPT !.stage = 9]
    /\ ops' = ops + 1
    /\ sumReq' = sumReq + len
    /\ UNCHANGED <<file, platform, build, buf, chunks, file_offset, result, fmt,
                   data_start, data_end, seeked>>

\* the effect of try_seek(sample_offset) on the platform file
SeekEffect(op, sample_offset, wrap) ==
    LET s == PlatformSeekFromCurrent(platform, file, pos,
                                     ByteOffset(sample_offset, sample_format),
                                     wrap)
    IN  /\ pos' = s.pos
        /\ pc' = IF s.err = "panic" THEN "panic" ELSE pc
        /\ last' = [op |-> op, arg |-> sample_offset, ok |-> s.ok, n |-> 0,
                    out |-> <<>>, from |-> pos]

\* AudioFile::try_seek for Wav
TrySeek(sample_offset) ==
    /\ pc = "streaming"
    /\ ops < MaxOps
    /\ \E wrap \in BOOLEAN : SeekEffect("try_seek", sample_offset, wrap)
    /\ rewind' = [rewind EXCEPT !.stage = 9]
    /\ ops' = ops + 1
    /\ seeked' = TRUE
    /\ UNCHANGED <<file, platform, build, buf, chunks, file_offset, result, fmt,
                   data_read, data_start, data_end, sumReq>>

\* the sample offset restart passes to try_seek
RestartOffset(p) == 0 - p

\* AudioFile::restart (default method)
Restart ==
    /\ pc = "streaming"
    /\ ops < MaxOps
    /\ \E wrap \in BOOLEAN : SeekEffect("restart", RestartOffset(played), wrap)
    /\ rewind' = IF rewind.stage = 1 THEN [rewind EXCEPT !.stage = 2]
                 ELSE [rewind EXCEPT !.stage = 9]
    /\ ops' = ops + 1
    /\ seeked' = TRUE
    /\ UNCHANGED <<file, platform, build, buf, chunks, file_offset, result, fmt,
                   data_read, data_start, data_end, sumReq>>

Next ==
    \/ NewStart
    \/ ParseChunks
    \/ NewFinish
    \/ \E len \in ReadLens : Read(len)
    \/ \E k \in SeekOffsets : TrySeek(k)
    \/ Restart

Spec == Init /\ [][Next]_vars

----------------------------------------------------------------------------
(* The format decoder on its own: parse_fmt applied to a fmt payload *)

FmtInputs ==
    { FmtBody(code, ch, rate, bits) \o ext :
        code \in {0, 1, 2, 257}, ch \in {0, 1, 2, 3, 257},
        rate \in {8000, 96000}, bits \in {0, 8, 16, 24, 32, 264},
        ext \in {<<>>, <<0, 0>>} }

InitFmt ==
    /\ file = <<>>
    /\ platform = "std"
    /\ build = "usize64"
    /\ pos = 0
    /\ buf \in FmtInputs
    /\ chunks = <<>>
    /\ file_offset = 0
    /\ pc = "decode"
    /\ result = "none"
    /\ fmt = NoFmt
    /\ data_read = 0
    /\ data_start = 0
    /\ data_end = 0
    /\ ops = 0
    /\ seeked = FALSE
    /\ sumReq = 0
    /\ last = NoOp
    /\ rewind = NoRewind

ParseFmtStep ==
    /\ pc = "decode"
    /\ LET f == parse_fmt(buf)
       IN  /\ fmt' = f.fmt
           /\ result' = IF f.err = "none" THEN "Ok" ELSE f.err
    /\ pc' = "decoded"
    /\ UNCHANGED <<file, platform, build, pos, buf, chunks, file_offset, data_read,
                   data_start, data_end, ops, seeked, sumReq, last, rewind>>

NextFmt == ParseFmtStep

SpecFmt == InitFmt /\ [][NextFmt]_vars

----------------------------------------------------------------------------
(* The container as the wire format defines it, read off the file bytes:   *)
(* from offset 12, tag, little-endian size, payload, pad byte if size odd. *)
(* A size of 2^31 or more, which no file of the model holds, is written    *)
(* -1 here and ends the walk.                                              *)

RECURSIVE Walk(_, _)
Walk(f, off) ==
    IF off + 8 > Len(f) THEN <<>>
    ELSE IF f[off + 8] >= 128
    THEN <<[tag |-> SubSeq(f, off + 1, off + 4), hdr |-> off,
            size |-> 0 - 1]>>
    ELSE LET size == f[off + 5] + 256 * f[off + 6] + 65536 * f[off + 7]
                       + 16777216 * f[off + 8]
         IN  <<[tag |-> SubSeq(f, off + 1, off + 4), hdr |-> off,
                size |-> size]>>
               \o Walk(f, off + 8 + size + (size % 2))

WireChunks == IF Len(file) >= 12 THEN Walk(file, 12) ELSE <<>>

WireU16(off) == file[off + 1] + 256 * file[off + 2]
WireU32(off) ==
    IF file[off + 4] >= 128 THEN 0 - 1
    ELSE file[off + 1] + 256 * file[off + 2] + 65536 * file[off + 3]
           + 16777216 * file[off + 4]

SupportedFmtAt(off) ==
    /\ off + 16 <= Len(file)
    /\ WireU16(off) = 1
    /\ WireU16(off + 2) \in {1, 2}
    /\ WireU16(off + 14) \in {8, 16, 24}

WithTag(t) == { i \in 1..Len(WireChunks) : WireChunks[i].tag = t }

IsWellFormedWav ==
    /\ Len(file) >= 12
    /\ SubSeq(file, 1, 4) = TagRIFF
    /\ SubSeq(file, 9, 12) = TagWAVE
    /\ Len(WireChunks) + 1 <= MAX_CHUNKS
    /\ \A i \in 1..Len(WireChunks) :
          /\ WireChunks[i].size >= 0
          /\ WireChunks[i].hdr + 8 + WireChunks[i].size
               + (WireChunks[i].size % 2) <= Len(file)
    /\ Cardinality(WithTag(TagFmt)) = 1
    /\ Cardinality(WithTag(TagData)) = 1
    /\ \A i \in WithTag(TagFmt) :
          WireChunks[i].size >= 16 /\ SupportedFmtAt(WireChunks[i].hdr + 8)

WireFmtAt == WireChunks[CHOOSE i \in WithTag(TagFmt) : TRUE].hdr + 8

Returned == pc \in {"streaming", "failed", "panic"}

BitsOf(f) == CASE f = "U8" -> 8 [] f = "I16" -> 16 [] f = "I24" -> 24
               [] OTHER -> 0

HasKind(cs, k) == \E i \in 1..Len(cs) : cs[i].chunk.kind = k

\* the size the header of the reader's data chunk declares
DeclaredDataSize == WireU32(data_start - 4)

\* the platform fills every buffer while data remains; the claims that do
\* not concern short reads are stated for such a platform
Filling == platform # "short"

----------------------------------------------------------------------------
(* Claims *)

\* C1: for every well-formed RIFF/WAVE file with exactly one supported fmt
\* chunk and exactly one data chunk (other chunks fitting the table),
\* Wav::new returns a reader whose sample_rate, channels and sample_format
\* equal the values encoded in the fmt payload.  Stated here for the files
\* whose sample rate fits the 16-bit descriptor field.
C1_ConstructionDecodesFmt ==
    (Returned /\ Filling /\ IsWellFormedWav
       /\ WireU32(WireFmtAt + 4) < U16) =>
        /\ result = "Ok"
        /\ sample_rate = WireU32(WireFmtAt + 4)
        /\ ChannelsToU16(channels) = WireU16(WireFmtAt + 2)
        /\ BitsOf(sample_format) = WireU16(WireFmtAt + 14)

C3_ReadStaysInData ==
    (result = "Ok" /\ ~seeked /\ Filling) =>
        /\ played <= data_end - data_start
        /\ pos <= data_end

\* C4: on a reader driven only by reads, is_eof() is true if and only if
\* played() = data_end - data_start.
C4_EofIffAllRead ==
    (result = "Ok" /\ ~seeked /\ Filling) =>
        (is_eof <=> played = data_end - data_start)

\* C5: after reading N <= data size bytes from a fresh reader, restart()
\* leaves the platform cursor at data_start, and reading N bytes again
\* returns the same bytes as the first read.
C5_RestartRewinds ==
    (result = "Ok" /\ Filling /\ rewind.n <= DeclaredDataSize) =>
        /\ rewind.stage = 2 => (last.ok /\ pos = data_start)
        /\ rewind.stage = 3 => (last.ok /\ last.out = rewind.out)

\* C6: a file whose first 4 bytes are neither RIFF nor RIFX is rejected
\* with NoRiffChunkFound, one whose bytes 8..12 are not WAVE with
\* NoWaveTagFound; no reader is returned.
C6_MarkersRequired ==
    (Returned /\ Filling /\ Len(file) >= 12) =>
        /\ SubSeq(file, 1, 4) \notin {TagRIFF, TagRIFX}
              => result = "NoRiffChunkFound"
        /\ (SubSeq(file, 1, 4) \in {TagRIFF, TagRIFX}
              /\ SubSeq(file, 9, 12) # TagWAVE)
              => result = "NoWaveTagFound"

\* C7: when the scan has completed, Wav::new returns NoFmtChunkFound if the
\* table holds no fmt chunk (data missing or not), NoDataChunkFound if it
\* holds a fmt chunk whose payload decodes but no data chunk, and a reader
\* only if the table holds both.
C7_MandatoryChunks ==
    [][pc = "located" =>
        /\ ~HasKind(chunks, "Fmt")
              => (pc' = "failed" /\ result' = "NoFmtChunkFound")
        /\ (/\ HasKind(chunks, "Fmt")
            /\ ~HasKind(chunks, "Data")
            /\ Filling
            /\ \E i \in 1..Len(chunks) :
                  /\ chunks[i].chunk.kind = "Fmt"
                  /\ \A j \in 1..(i - 1) : chunks[j].chunk.kind # "Fmt"
                  /\ SupportedFmtAt(chunks[i].start))
              => (pc' = "failed" /\ result' = "NoDataChunkFound")
        /\ result' = "Ok"
              => (HasKind(chunks, "Fmt") /\ HasKind(chunks, "Data"))
        /\ result' = "NoFmtChunkFound" => ~HasKind(chunks, "Fmt")
        /\ result' = "NoDataChunkFound" => ~HasKind(chunks, "Data")]_vars

C7_Witness ==
    /\ pc = "failed"
    /\ result = "NoDataChunkFound"
    /\ HasKind(chunks, "Fmt")
    /\ ~HasKind(chunks, "Data")

\* C8: reaching the capacity of the chunk table is not an error:
\* construction never returns ExceededMaxChunks, and succeeds when the fmt
\* and data chunks are among the first MAX_CHUNKS entries.
C8_CapacityIsBenign ==
    (Returned /\ Filling) =>
        /\ result # "ExceededMaxChunks"
        /\ (/\ Len(chunks) = MAX_CHUNKS
            /\ HasKind(chunks, "Fmt") /\ HasKind(chunks, "Data")
            /\ IsWellFormedWav) => result = "Ok"

\* C9: a fmt or data chunk that follows an odd-sized chunk in the file is
\* recorded by the completed scan with its true payload start offset,
\* i.e. its header is decoded at start + size + 1 of the odd-sized chunk.
C9_OddChunkSkipped ==
    (pc = "located" /\ Filling /\ Len(chunks) < MAX_CHUNKS) =>
        \A i \in 1..(Len(WireChunks) - 1) :
            (/\ WireChunks[i].size % 2 = 1
             /\ WireChunks[i + 1].tag \in {TagFmt, TagData}) =>
                \E j \in 1..Len(chunks) :
                    /\ chunks[j].start = WireChunks[i].hdr + 8
                         + WireChunks[i].size + 1 + 8
                    /\ chunks[j].chunk.raw = WireChunks[i + 1].tag

\* C10: on a payload of at least 16 bytes the format decoder returns a
\* descriptor iff the format code is 1, the channel count 1 or 2 and the
\* bit depth 8, 16 or 24, mapping 1->Mono, 2->Stereo, 8->U8, 16->I16,
\* 24->I24; otherwise the error of the first failing field in the order
\* format, channels, bit depth, and no descriptor.
C10_FmtDecoder ==
    pc = "decoded" =>
        LET code == buf[1] + 256 * buf[2]
            ch == buf[3] + 256 * buf[4]
            bits == buf[15] + 256 * buf[16]
        IN  /\ result = "Ok" <=>
                 (code = 1 /\ ch \in {1, 2} /\ bits \in {8, 16, 24})
            /\ result = "Ok" =>
                 /\ fmt.audio_format = "Pcm"
                 /\ fmt.channels = (IF ch = 1 THEN "Mono" ELSE "Stereo")
                 /\ fmt.sample_format =
                      (IF bits = 8 THEN "U8"
                       ELSE IF bits = 16 THEN "I16" ELSE "I24")
            /\ result # "Ok" => fmt = NoFmt
            /\ code # 1 => result = "UnsupportedAudioFormat"
            /\ (code = 1 /\ ch \notin {1, 2})
                 => result = "UnsupportedChannelCount"
            /\ (code = 1 /\ ch \in {1, 2} /\ bits \notin {8, 16, 24})
                 => result = "UnknownEncoding"

C10_Witness ==
    /\ pc = "decoded"
    /\ buf[1] + 256 * buf[2] = 2
    /\ buf[3] + 256 * buf[4] = 3
    /\ result = "UnsupportedAudioFormat"

\* the payload offset of the fmt entry Wav::new decodes: the table's first
TableFmtStart ==
    chunks[CHOOSE i \in 1..Len(chunks) :
              /\ chunks[i].chunk.kind = "Fmt"
              /\ \A j \in 1..(i - 1) : chunks[j].chunk.kind # "Fmt"].start

FmtDecodeErrors == {"UnsupportedAudioFormat", "UnsupportedChannelCount",
                    "UnknownEncoding", "FmtChunkError", "ChunkSizeIncorrect"}

\* C11: the sample rate of a constructed reader is the 32-bit little-endian
\* value at bytes [4:8] of the decoded fmt payload modulo 2^16: a wire value
\* up to 65535 is returned unchanged, a larger one truncated, and a fmt
\* payload whose other fields are supported never fails to decode whatever
\* its rate.
C11_SampleRateTruncated ==
    (Returned /\ HasKind(chunks, "Fmt") /\ Filling
       /\ TableFmtStart + 16 <= Len(file)) =>
        LET wire == WireU32(TableFmtStart + 4)
        IN  /\ result = "Ok" =>
                 /\ sample_rate = wire % U16
                 /\ sample_rate < U16
                 /\ wire < U16 => sample_rate = wire
            /\ SupportedFmtAt(TableFmtStart)
                 => result \notin FmtDecodeErrors

C11_Witness ==
    /\ result = "Ok"
    /\ pc = "streaming"
    /\ WireU32(TableFmtStart + 4) = 96000
    /\ sample_rate = 30464

\* C12: try_seek(k) moves the platform cursor by k * size(sample_format)
\* bytes relative to where it was (size 1, 2, 3 for U8, I16, I24), for
\* positive and negative k, without comparing the target with data_start
\* or data_end: it succeeds exactly when the platform's relative seek does
\* (std::fs::File: target not negative; TestFile: target not beyond the
\* file) and a failed seek leaves the cursor where it was.
C12_TrySeekIsRelative ==
    (result = "Ok" /\ last.op = "try_seek" /\ pc # "panic") =>
        LET target == last.from + last.arg * (BitsOf(sample_format) \div 8)
        IN  /\ platform # "test" => (last.ok <=> target >= 0)
            /\ platform = "test" => (last.ok <=> target <= Len(file))
            /\ (last.ok /\ (platform # "test" \/ last.arg > 0))
                  => pos = target
            /\ ~last.ok => pos = last.from

\* a successful seek of one 3-byte sample backwards, out of the data chunk
C12_Witness ==
    /\ result = "Ok" /\ last.op = "try_seek" /\ pc = "streaming"
    /\ last.ok
    /\ last.arg = 0 - 1
    /\ sample_format = "I24"
    /\ pos = last.from - 3
    /\ pos < data_start

\* C13: the decoder never panics: Wav::new returns Ok or an Error value and
\* every read returns Ok or Err, whatever the bytes of the file and the
\* outcomes of the platform calls; the only panics possible are those of
\* the platform file's own seek.
C13_NoPanic ==
    pc = "panic" => (result = "Ok" /\ last.op \in {"try_seek", "restart"})

\* C14: a subchunk header that begins inside the scan window but does not
\* lie wholly within it is decoded from its own offset, so that the
\* completed scan of a well-formed file has recorded every subchunk of the
\* file with its tag and payload start, and no entry decoded from an offset
\* that is not a header's.
C14_StraddlingHeaderReread ==
    (pc = "located" /\ Filling /\ IsWellFormedWav) =>
        /\ \A i \in 1..Len(WireChunks) :
              \E j \in 2..Len(chunks) :
                  /\ chunks[j].start = WireChunks[i].hdr + 8
                  /\ chunks[j].chunk.raw = WireChunks[i].tag
        /\ \A j \in 2..Len(chunks) :
              \E i \in 1..Len(WireChunks) :
                  chunks[j].start = WireChunks[i].hdr + 8

\* C15: every table entry decoded from a header of the file has
\* start = header offset + 8 and end = start + the size its length field
\* declares, the pad byte of an odd size not counted; so the reader's
\* data_end - data_start is the declared size of the data chunk, odd or
\* even.
C15_EndIsStartPlusSize ==
    Filling =>
        /\ \A j \in 1..Len(chunks) :
              (/\ chunks[j].start >= 8
               /\ chunks[j].start <= Len(file)
               /\ WireU32(chunks[j].start - 4) >= 0) =>
                  chunks[j].end
                    = chunks[j].start + WireU32(chunks[j].start - 4)
        /\ (result = "Ok" /\ DeclaredDataSize >= 0)
              => data_end - data_start = DeclaredDataSize

\* the scan of a file whose every read fills the buffer, from offset off
RECURSIVE FullScan(_, _, _, _)
FullScan(bd, f, off, cs) ==
    LET r == StdRead(f, off, BUF_LEN)
    IN  IF r.n = 0 THEN [chunks |-> cs, err |-> "none"]
        ELSE LET w == ScanLoop(bd, FillBuf([i \in 1..BUF_LEN |-> 0], f, off,
                                           r.n), r.n, off, 0, cs)
             IN  IF w.err # "none" THEN [chunks |-> w.chunks, err |-> w.err]
                 ELSE FullScan(bd, f, w.next, w.chunks)

FullTable ==
    FullScan(build, file, 12,
             <<parse_chunk(build, SubSeq(file, 1, 8), 0).entry>>)

\* C16: with a platform whose reads may return fewer bytes than asked for
\* while data remains, the scan completes with the chunk table that a
\* platform filling every buffer produces.
C16_SplitIndependent ==
    (platform = "short" /\ pc = "located") =>
        /\ FullTable.err = "none"
        /\ chunks = FullTable.chunks

\* C17: when the fmt chunk that construction decodes provides fewer than 16
\* payload bytes (its header declares fewer, or the file ends before
\* them), construction does not return a reader and does not report a
\* result obtained by decoding format fields: it fails with FmtChunkError
\* or ChunkSizeIncorrect, unless the scan or a platform call failed first.
C17_ShortFmtRejected ==
    (/\ Returned
     /\ Filling
     /\ HasKind(chunks, "Fmt")
     /\ TableFmtStart >= 8
     /\ TableFmtStart <= Len(file)
     /\ \/ TableFmtStart + 16 > Len(file)
        \/ WireU32(TableFmtStart - 4) \in 0..15
     /\ result \in {"Ok", "NoDataChunkFound", "UnsupportedAudioFormat",
                    "UnsupportedChannelCount", "UnknownEncoding"}
                    \cup FmtDecodeErrors) =>
        result \in {"FmtChunkError", "ChunkSizeIncorrect"}

\* C18: every step of the scan (window refill or jump to the end of a chunk
\* larger than the window) continues at a file offset strictly greater
\* than the one it started from, which is why the scan terminates on
\* every finite file.
C18_ScanAdvances ==
    [][(pc = "scan" /\ pc' = "scan")
          => ~WordLe(file_offset', file_offset)]_vars

C20_TableInvariant ==
    /\ Len(chunks) <= MAX_CHUNKS
    /\ \A j \in 1..Len(chunks) : WordLe(chunks[j].start, chunks[j].end)
    /\ \A j \in 3..Len(chunks) :
          WordLe(chunks[j - 1].end + 8, chunks[j].start)

====
